---- MODULE Spec2Model ----
(***************************************************************************)
(* Model of setup.py of gerrit_view: the module-level setup(...) call, its *)
(* two file readers _requirements() and _long_description(), and the file  *)
(* system they read.  Byte strings are sequences of one-character strings. *)
(* The code is Python 2 (str is the byte string read in 'rb' mode).        *)
(***************************************************************************)
EXTENDS Integers, Sequences, FiniteSets, TLC

\* ------------------------------------------------------------------ bounds
MaxReqLen == 4        \* longest enumerated requirements.txt, one invocation
MaxReadmeLen == 2     \* longest enumerated README.rst, one invocation
TwoReqLen == 3        \* longest requirements.txt, two invocations
TwoReadmeLen == 1     \* longest README.rst, two invocations

ReqAlphabet == {"\n", " ", "#", "a"}
ReadmeAlphabet == {"H", "\n"}

SeqsUpTo(S, n) == UNION {[1..k -> S] : k \in 0..n}

\* The requirements file of the documented scenario:
\* '\n# comment\n  \nrequests>=2.0\nurwid\n'
ScenarioRequirements ==
    <<"\n", "#", " ", "c", "o", "m", "m", "e", "n", "t", "\n", " ", " ", "\n",
      "r", "e", "q", "u", "e", "s", "t", "s", ">", "=", "2", ".", "0", "\n",
      "u", "r", "w", "i", "d", "\n">>
ScenarioDependencies ==
    << <<"r", "e", "q", "u", "e", "s", "t", "s", ">", "=", "2", ".", "0">>,
       <<"u", "r", "w", "i", "d">> >>
\* A requirement line with a trailing inline comment: 'pkg==1.0  # pinned\n'
InlineCommentLine ==
    <<"p", "k", "g", "=", "=", "1", ".", "0", " ", " ", "#", " ",
      "p", "i", "n", "n", "e", "d">>
InlineCommentRequirements == InlineCommentLine \o <<"\n">>
\* The README of the documented scenario: 'Hello\nWorld\n'
ScenarioReadme ==
    <<"H", "e", "l", "l", "o", "\n", "W", "o", "r", "l", "d", "\n">>

\* ------------------------------------------------------------ the program
VARIABLES
    procs,        \* the build invocations (processes) of this behaviour
    reqFile,      \* requirements.txt as the file system holds it
    readmeFile,   \* README.rst as the file system holds it
    pc,           \* per invocation: where the evaluation of setup(...) stands
    fh,           \* per invocation: the set of files it holds open
    pos,          \* per invocation: byte offset of fh in requirements.txt
    reqs,         \* per invocation: the local list reqs of _requirements
    kwargs,       \* per invocation: keyword arguments evaluated so far
    manifest,     \* per invocation: what setup() was called with, if it was
    error,        \* per invocation: the exception that ended it, if any
    calls         \* per invocation: how often each file was opened and
                  \* setup() was called

vars == <<procs, reqFile, readmeFile, pc, fh, pos, reqs, kwargs, manifest,
          error, calls>>

Invocations == {1, 2}
NoFault == 0 - 1
None == <<>>                   \* an option is <<>> or <<value>>
Some(v) == <<v>>

REQUIREMENTS == "requirements.txt"
README == "README.rst"

\* string.whitespace, the characters str.strip() removes
Whitespace == {" ", "\t", "\n", "\r", "\f"}

\* os.path.join(os.path.dirname(__file__), fn), a path as its components
_path(fn) == <<"dirname(__file__)">> \o fn

RECURSIVE lstrip(_)
lstrip(s) == IF s # <<>> /\ Head(s) \in Whitespace THEN lstrip(Tail(s)) ELSE s

RECURSIVE rstrip(_)
rstrip(s) ==
    IF s # <<>> /\ s[Len(s)] \in Whitespace
    THEN rstrip(SubSeq(s, 1, Len(s) - 1))
    ELSE s

stripOneSide(s) == rstrip(s)
strip(s) == rstrip(lstrip(s))

startswith(s, p) == Len(s) >= Len(p) /\ SubSeq(s, 1, Len(p)) = p

contains(s, ch) == \E i \in 1..Len(s) : s[i] = ch

\* The offset just past the line that starts at offset i: a binary-mode file
\* iterator ends a line after each "\n" and at end of file.
RECURSIVE LineEnd(_, _)
LineEnd(c, i) ==
    IF i >= Len(c) THEN Len(c)
    ELSE IF c[i + 1] = "\n" THEN i + 1
    ELSE LineEnd(c, i + 1)

readline(c, i) == SubSeq(c, i + 1, LineEnd(c, i))

\* The test of line 35: skip and continue.
anyHashSkipped(line) == line = <<>> \/ contains(line, "#")
skipped(line) == line = <<>> \/ startswith(line, <<"#">>)

\* reqs.append(line), line 37
prepended(l, line) == <<line>> \o l
appended(l, line) == Append(l, line)

\* One pass of the loop body, lines 34-37, on the list built so far.
loopBody(l, rawline) ==
    LET line == strip(rawline)
    IN  IF skipped(line) THEN l ELSE appended(l, line)

\* open(path, 'rb') succeeds
openableIfNonEmpty(f) == f.canOpen /\ f.content # <<>>
openable(f) == f.canOpen

\* The read of the line at offset i hits the unreadable byte of the file.
ReadFaults(f, from, to) == f.faultAt # NoFault /\ to > f.faultAt

TypeOK ==
    /\ procs \subseteq Invocations
    /\ \A r \in Invocations :
        /\ pc[r] \in {"start", "req_loop", "readme", "readme_read", "setup",
                      "done", "failed"}
        /\ fh[r] \subseteq {REQUIREMENTS, README}
        /\ pos[r] \in 0..Len(reqFile.content)
        /\ error[r] \in {"none", "IOError"}

FileStates(contents) ==
    {[canOpen |-> FALSE, content |-> <<>>, faultAt |-> NoFault]}
    \cup {[canOpen |-> TRUE, content |-> c, faultAt |-> f] :
             <<c, f>> \in UNION {{<<c, f>> : f \in {NoFault} \cup 0..(Len(c) - 1)}
                                   : c \in contents}}

ReadmeStates(contents) ==
    {[canOpen |-> FALSE, content |-> <<>>, faultAt |-> NoFault]}
    \cup {[canOpen |-> TRUE, content |-> c, faultAt |-> f] :
             <<c, f>> \in UNION {{<<c, f>> : f \in IF c = <<>> THEN {NoFault}
                                                   ELSE {NoFault, 0}}
                                   : c \in contents}}

InitWith(ps, reqContents, readmeContents) ==
    /\ procs = ps
    /\ reqFile \in FileStates(reqContents)
    /\ readmeFile \in ReadmeStates(readmeContents)
    /\ pc = [r \in Invocations |-> "start"]
    /\ fh = [r \in Invocations |-> {}]
    /\ pos = [r \in Invocations |-> 0]
    /\ reqs = [r \in Invocations |-> <<>>]
    /\ kwargs = [r \in Invocations |->
                    [install_requires |-> None, long_description |-> None]]
    /\ manifest = [r \in Invocations |-> None]
    /\ error = [r \in Invocations |-> "none"]
    /\ calls = [r \in Invocations |-> [req |-> 0, readme |-> 0, setup |-> 0]]

Init ==
    InitWith({1},
             SeqsUpTo(ReqAlphabet, MaxReqLen)
                 \cup {ScenarioRequirements, InlineCommentRequirements},
             SeqsUpTo(ReadmeAlphabet, MaxReadmeLen) \cup {ScenarioReadme})

InitTwo ==
    InitWith({1, 2},
             SeqsUpTo(ReqAlphabet, TwoReqLen) \cup {ScenarioRequirements},
             SeqsUpTo(ReadmeAlphabet, TwoReadmeLen) \cup {ScenarioReadme})

\* Variant: the handle is not released on the failure path (no `with`).
RaiseLeaking(r, exc) ==
    /\ fh' = fh
    /\ error' = [error EXCEPT ![r] = exc]
    /\ pc' = [pc EXCEPT ![r] = "failed"]

\* Variant: the failure is caught locally and the build starts over.
RaiseRetried(r, exc) ==
    /\ fh' = [fh EXCEPT ![r] = {}]
    /\ error' = [error EXCEPT ![r] = exc]
    /\ pc' = [pc EXCEPT ![r] = "start"]

\* An uncaught exception leaves every `with` block on its way out of the
\* module: the open handle is closed and the process ends.
Raise(r, exc) ==
    /\ fh' = [fh EXCEPT ![r] = {}]
    /\ error' = [error EXCEPT ![r] = exc]
    /\ pc' = [pc EXCEPT ![r] = "failed"]

\* install_requires=_requirements(): lines 31-32, reqs = [] and open(...)
OpenRequirements(r) ==
    /\ pc[r] = "start"
    /\ calls' = [calls EXCEPT ![r].req = @ + 1]
    /\ reqs' = [reqs EXCEPT ![r] = <<>>]
    /\ IF openable(reqFile)
       THEN /\ fh' = [fh EXCEPT ![r] = @ \cup {REQUIREMENTS}]
            /\ pos' = [pos EXCEPT ![r] = 0]
            /\ pc' = [pc EXCEPT ![r] = "req_loop"]
            /\ UNCHANGED error
       ELSE /\ Raise(r, "IOError")
            /\ UNCHANGED pos
    /\ UNCHANGED <<procs, reqFile, readmeFile, kwargs, manifest>>

\* for line in fh: one iteration of lines 33-37
NextLine(r) ==
    /\ pc[r] = "req_loop"
    /\ pos[r] < Len(reqFile.content)
    /\ LET to == LineEnd(reqFile.content, pos[r])
       IN  IF ReadFaults(reqFile, pos[r], to)
           THEN /\ Raise(r, "IOError")
                /\ UNCHANGED <<pos, reqs>>
           ELSE /\ pos' = [pos EXCEPT ![r] = to]
                /\ reqs' = [reqs EXCEPT
                             ![r] = loopBody(@, readline(reqFile.content, pos[r]))]
                /\ UNCHANGED <<fh, error, pc>>
    /\ UNCHANGED <<procs, reqFile, readmeFile, kwargs, manifest, calls>>

\* the orders in which the entries of a list can come out of a set
Reorderings(l) ==
    {m \in [1..Len(l) -> {l[i] : i \in 1..Len(l)}] :
        \E q \in [1..Len(l) -> 1..Len(l)] :
            /\ \A i, j \in 1..Len(l) : i # j => q[i] # q[j]
            /\ \A i \in 1..Len(l) : m[i] = l[q[i]]}

\* Variant: the list is returned through an unordered collection.
ReturnRequirementsUnordered(r) ==
    /\ pc[r] = "req_loop"
    /\ pos[r] = Len(reqFile.content)
    /\ fh' = [fh EXCEPT ![r] = @ \ {REQUIREMENTS}]
    /\ \E m \in Reorderings(reqs[r]) :
           kwargs' = [kwargs EXCEPT ![r].install_requires = Some(m)]
    /\ pc' = [pc EXCEPT ![r] = "readme"]
    /\ UNCHANGED <<procs, reqFile, readmeFile, pos, reqs, manifest, error, calls>>

\* Variant: the list is returned with the file still open (no `with`).
ReturnRequirementsUnclosed(r) ==
    /\ pc[r] = "req_loop"
    /\ pos[r] = Len(reqFile.content)
    /\ kwargs' = [kwargs EXCEPT ![r].install_requires = Some(reqs[r])]
    /\ pc' = [pc EXCEPT ![r] = "readme"]
    /\ UNCHANGED <<procs, reqFile, readmeFile, fh, pos, reqs, manifest, error, calls>>

\* end of file: the with block closes fh and line 38 returns reqs
ReturnRequirements(r) ==
    /\ pc[r] = "req_loop"
    /\ pos[r] = Len(reqFile.content)
    /\ fh' = [fh EXCEPT ![r] = @ \ {REQUIREMENTS}]
    /\ kwargs' = [kwargs EXCEPT ![r].install_requires = Some(reqs[r])]
    /\ pc' = [pc EXCEPT ![r] = "readme"]
    /\ UNCHANGED <<procs, reqFile, readmeFile, pos, reqs, manifest, error, calls>>

\* long_description=_long_description(): line 42, open(...)
OpenReadme(r) ==
    /\ pc[r] = "readme"
    /\ calls' = [calls EXCEPT ![r].readme = @ + 1]
    /\ IF openable(readmeFile)
       THEN /\ fh' = [fh EXCEPT ![r] = @ \cup {README}]
            /\ pc' = [pc EXCEPT ![r] = "readme_read"]
            /\ UNCHANGED error
       ELSE Raise(r, "IOError")
    /\ UNCHANGED <<procs, reqFile, readmeFile, pos, reqs, kwargs, manifest>>

\* what fh.read() returns for a file
truncatedRead(f) == rstrip(f.content)
read(f) == f.content

\* line 43: return fh.read(), and the with block closes fh
ReadReadme(r) ==
    /\ pc[r] = "readme_read"
    /\ IF ReadFaults(readmeFile, 0, Len(readmeFile.content))
       THEN /\ Raise(r, "IOError")
            /\ UNCHANGED kwargs
       ELSE /\ fh' = [fh EXCEPT ![r] = @ \ {README}]
            /\ kwargs' = [kwargs EXCEPT
                            ![r].long_description = Some(read(readmeFile))]
            /\ pc' = [pc EXCEPT ![r] = "setup"]
            /\ UNCHANGED error
    /\ UNCHANGED <<procs, reqFile, readmeFile, pos, reqs, manifest, calls>>

\* The keyword arguments of lines 46-66, once both calls have returned.
Manifest(kw) ==
    [name |-> "gerrit-view",
     version |-> "0.1",
     description |-> "Gerrit viewer tools",
     author |-> "Joshua Harlow",
     author_email |-> "harlowja@yahoo-inc.com",
     url |-> "http://github.com/harlowja/gerrit_view/",
     scripts |-> <<_path(<<"scripts", "cgerrit">>),
                   _path(<<"scripts", "qgerrit">>)>>,
     license |-> "ASL 2.0",
     install_requires |-> kw.install_requires[1],
     classifiers |-> <<"Development Status :: 4 - Beta",
                       "Topic :: Utilities",
                       "License :: OSI Approved :: Apache Software License",
                       "Operating System :: POSIX :: Linux",
                       "Programming Language :: Python">>,
     keywords |-> "gerrit curses urwid console",
     long_description |-> kw.long_description[1]]

\* Variant: setup(...) is called and the module body runs it again.
CallSetupAgain(r) ==
    /\ pc[r] = "setup"
    /\ manifest' = [manifest EXCEPT ![r] = Some(Manifest(kwargs[r]))]
    /\ calls' = [calls EXCEPT ![r].setup = @ + 1]
    /\ UNCHANGED <<procs, reqFile, readmeFile, pc, fh, pos, reqs, kwargs, error>>

\* setup(...) is called with the evaluated arguments
CallSetup(r) ==
    /\ pc[r] = "setup"
    /\ manifest' = [manifest EXCEPT ![r] = Some(Manifest(kwargs[r]))]
    /\ calls' = [calls EXCEPT ![r].setup = @ + 1]
    /\ pc' = [pc EXCEPT ![r] = "done"]
    /\ UNCHANGED <<procs, reqFile, readmeFile, fh, pos, reqs, kwargs, error>>

Next ==
    \E r \in procs :
        \/ OpenRequirements(r)
        \/ NextLine(r)
        \/ ReturnRequirements(r)
        \/ OpenReadme(r)
        \/ ReadReadme(r)
        \/ CallSetup(r)

Spec == Init /\ [][Next]_vars

SpecTwo == InitTwo /\ [][Next]_vars

\* ------------------------------------------------- what the claims speak of
\* The requirements file read line by line, stated without the reader: the
\* offsets where a line starts, the line there, and its text between its
\* first and last character that is not whitespace.
Min(S) == CHOOSE x \in S : \A y \in S : x <= y
Max(S) == CHOOSE x \in S : \A y \in S : x >= y

LineStarts(c) == {i \in 0..(Len(c) - 1) : i = 0 \/ c[i] = "\n"}

LineFrom(c, s) ==
    LET ends == {e \in (s + 1)..Len(c) : c[e] = "\n" \/ e = Len(c)}
    IN  SubSeq(c, s + 1, Min(ends))

Trimmed(l) ==
    LET ink == {i \in 1..Len(l) : l[i] \notin Whitespace}
    IN  IF ink = {} THEN <<>> ELSE SubSeq(l, Min(ink), Max(ink))

IsBlank(l) == \A i \in 1..Len(l) : l[i] \in Whitespace
IsComment(l) == ~IsBlank(l) /\ Trimmed(l)[1] = "#"
HasInlineHash(l) ==
    /\ ~IsBlank(l)
    /\ ~IsComment(l)
    /\ \E i \in 2..Len(Trimmed(l)) : Trimmed(l)[i] = "#"

KeptStarts(c) ==
    {s \in LineStarts(c) : ~IsBlank(LineFrom(c, s)) /\ ~IsComment(LineFrom(c, s))}

\* the k-th kept line of c, trimmed
KeptLine(c, k) ==
    LET s == CHOOSE t \in KeptStarts(c) :
                 Cardinality({u \in KeptStarts(c) : u <= t}) = k
    IN  Trimmed(LineFrom(c, s))

Entries(l) == {l[k] : k \in 1..Len(l)}
Readable(f) == f.canOpen /\ f.faultAt = NoFault
Terminated(r) == pc[r] \in {"done", "failed"}
Returned(r) == kwargs[r].install_requires # None
Dependencies(r) == kwargs[r].install_requires[1]

\* C1: the dependency list _requirements returns has no entry for a blank or
\* whitespace-only line nor for a line whose first non-whitespace character
\* is '#'; every other line contributes exactly its stripped text as one
\* entry; the documented scenario file yields ['requests>=2.0', 'urwid'].
C1_FilteredDependencies ==
    \A r \in procs :
        Returned(r) =>
            LET c == reqFile.content
                deps == Dependencies(r)
            IN  /\ Len(deps) = Cardinality(KeptStarts(c))
                /\ Entries(deps) =
                       {Trimmed(LineFrom(c, s)) : s \in KeptStarts(c)}
                /\ \A k \in 1..Len(deps) :
                       /\ deps[k] # <<>>
                       /\ deps[k][1] \notin Whitespace \cup {"#"}
                       /\ deps[k][Len(deps[k])] \notin Whitespace
                /\ c = ScenarioRequirements => deps = ScenarioDependencies

C1_Witness ==
    \E r \in procs :
        /\ Returned(r)
        /\ reqFile.content = ScenarioRequirements
        /\ Dependencies(r) = ScenarioDependencies

\* C2: at every step of the line-by-line read the list built so far is, entry
\* by entry and in file order, the stripped text of the non-skipped lines of
\* the prefix already consumed: order and multiplicity are the file's.
C2_OrderAndMultiplicity ==
    \A r \in procs :
        pc[r] # "start" /\ reqFile.canOpen =>
            LET prefix == SubSeq(reqFile.content, 1, pos[r])
            IN  /\ pos[r] \in LineStarts(reqFile.content) \cup {Len(reqFile.content)}
                /\ Len(reqs[r]) = Cardinality(KeptStarts(prefix))
                /\ \A k \in 1..Len(reqs[r]) : reqs[r][k] = KeptLine(prefix, k)
                /\ Returned(r) =>
                       /\ pos[r] = Len(reqFile.content)
                       /\ Dependencies(r) = reqs[r]

C2_Witness ==
    \E r \in procs :
        /\ pc[r] = "req_loop"
        /\ Len(reqs[r]) = 2
        /\ reqs[r][1] # reqs[r][2]

\* C3: a manifest exists only if both files were opened and read to the end;
\* an invocation that failed holds the file access error, has no manifest,
\* and has opened neither file a second time; an unreadable file keeps the
\* invocation from ever reaching the call of setup.
C3_AllOrNothing ==
    \A r \in procs :
        /\ manifest[r] # None =>
               /\ Readable(reqFile) /\ Readable(readmeFile)
               /\ kwargs[r].install_requires # None
               /\ kwargs[r].long_description # None
               /\ error[r] = "none"
        /\ pc[r] = "failed" =>
               /\ error[r] = "IOError"
               /\ manifest[r] = None
               /\ ~(Readable(reqFile) /\ Readable(readmeFile))
        /\ error[r] # "none" => pc[r] = "failed"
        /\ calls[r].req <= 1 /\ calls[r].readme <= 1
        /\ ~(Readable(reqFile) /\ Readable(readmeFile)) =>
               pc[r] \notin {"setup", "done"}
        /\ Terminated(r) \/ ENABLED Next

C3_Witness ==
    \E r \in procs :
        /\ pc[r] = "failed"
        /\ error[r] = "IOError"
        /\ Returned(r)
        /\ manifest[r] = None

\* C4: _long_description returns the content of README.rst byte for byte,
\* whitespace at either end included; an empty README gives an empty
\* description and does not fail the build.
C4_DescriptionVerbatim ==
    \A r \in procs :
        /\ kwargs[r].long_description # None =>
               LET d == kwargs[r].long_description[1]
               IN  /\ Len(d) = Len(readmeFile.content)
                   /\ \A i \in 1..Len(d) : d[i] = readmeFile.content[i]
        /\ manifest[r] # None =>
               manifest[r][1].long_description = readmeFile.content
        /\ (readmeFile.canOpen /\ readmeFile.content = <<>> /\ Readable(reqFile))
               => pc[r] # "failed"

C4_Witness ==
    \E r \in procs :
        /\ readmeFile.content = ScenarioReadme
        /\ kwargs[r].long_description = Some(ScenarioReadme)

\* C5: with requirements.txt present and empty, _requirements returns the
\* empty list without failing, and with a readable README the build ends with
\* a manifest whose dependency list is empty.
C5_EmptyRequirements ==
    \A r \in procs :
        (reqFile.canOpen /\ reqFile.content = <<>>) =>
            /\ pc[r] \notin {"start", "req_loop"} => kwargs[r].install_requires = Some(<<>>)
            /\ pc[r] = "failed" => calls[r].readme = 1 /\ ~Readable(readmeFile)
            /\ pc[r] = "done" =>
                   /\ manifest[r] # None
                   /\ manifest[r][1].install_requires = <<>>

C5_Witness ==
    \E r \in procs :
        /\ reqFile.canOpen /\ reqFile.content = <<>>
        /\ pc[r] = "done"
        /\ manifest[r][1].install_requires = <<>>

\* C6: a line with a '#' after the first character of its stripped text is
\* one entry of the dependency list, its whole stripped text with the '#' and
\* what follows it; 'pkg==1.0  # pinned' is kept as it stands.
C6_InlineHashKept ==
    \A r \in procs :
        Returned(r) =>
            /\ \A s \in LineStarts(reqFile.content) :
                   HasInlineHash(LineFrom(reqFile.content, s)) =>
                       Trimmed(LineFrom(reqFile.content, s)) \in Entries(Dependencies(r))
            /\ reqFile.content = InlineCommentRequirements =>
                   Dependencies(r) = <<InlineCommentLine>>

C6_Witness ==
    \E r \in procs :
        /\ Returned(r)
        /\ reqFile.content = InlineCommentRequirements
        /\ \E i \in 2..Len(Dependencies(r)[1]) : Dependencies(r)[1][i] = "#"

C8_HandlesScoped ==
    \A r \in procs :
        /\ Cardinality(fh[r]) <= 1
        /\ pc[r] = "req_loop" <=> fh[r] = {REQUIREMENTS}
        /\ pc[r] = "readme_read" <=> fh[r] = {README}
        /\ pc[r] \in {"setup", "done", "failed"} => fh[r] = {}

C8_Witness ==
    \E r \in procs :
        /\ pc[r] = "failed"
        /\ pos[r] > 0
        /\ pos[r] < Len(reqFile.content)
        /\ reqs[r] # <<>>
        /\ fh[r] = {}

\* C9 as stated: at most one manifest per invocation, exactly one when both
\* reads succeed, and each of the two files read exactly once per invocation.
C9_ExactlyOnceAsStated ==
    \A r \in procs :
        /\ calls[r].setup <= 1
        /\ pc[r] = "done" => calls[r].setup = 1
        /\ Terminated(r) => calls[r].req = 1 /\ calls[r].readme = 1

\* C9, amended: setup is called at most once per invocation, and exactly once
\* when both reads succeeded; a manifest, once constructed, keeps every field
\* in every later state; each file is opened at most once per invocation, and
\* exactly once in an invocation that ends with a manifest.
C9_OneManifest ==
    /\ [](\A r \in procs :
            /\ calls[r].setup <= 1
            /\ calls[r].setup = 1 <=> manifest[r] # None
            /\ pc[r] = "done" <=> manifest[r] # None
            /\ (kwargs[r].install_requires # None
                    /\ kwargs[r].long_description # None)
                   => pc[r] \in {"setup", "done"}
            /\ calls[r].req <= 1 /\ calls[r].readme <= 1
            /\ manifest[r] # None => calls[r].req = 1 /\ calls[r].readme = 1)
    /\ [][\A r \in procs :
            manifest[r] # None =>
                /\ manifest'[r] = manifest[r]
                /\ calls'[r] = calls[r]]_vars

C9_Witness ==
    \E r \in procs :
        /\ pc[r] = "done"
        /\ calls[r] = [req |-> 1, readme |-> 1, setup |-> 1]
        /\ manifest[r][1].name = "gerrit-view"
        /\ manifest[r][1].install_requires # <<>>

\* C10: README.rst is opened only after requirements.txt was read to its end
\* and closed and the whole dependency list was returned; an invocation that
\* failed on requirements.txt never opened README.rst, and one that failed on
\* README.rst holds the complete dependency list.
C10_RequirementsBeforeReadme ==
    \A r \in procs :
        /\ (calls[r].readme > 0 \/ README \in fh[r]) =>
               /\ REQUIREMENTS \notin fh[r]
               /\ calls[r].req = 1
               /\ pos[r] = Len(reqFile.content)
               /\ Returned(r)
               /\ Len(Dependencies(r)) = Cardinality(KeptStarts(reqFile.content))
        /\ (pc[r] = "failed" /\ ~Readable(reqFile)) =>
               calls[r].readme = 0 /\ kwargs[r].long_description = None
        /\ (pc[r] = "failed" /\ Readable(reqFile)) =>
               /\ calls[r].readme = 1
               /\ Returned(r)
               /\ Len(Dependencies(r)) = Cardinality(KeptStarts(reqFile.content))

C10_Witness ==
    \E r \in procs :
        /\ pc[r] = "failed"
        /\ calls[r].readme = 1
        /\ Returned(r)
        /\ Dependencies(r) # <<>>

====
